---- MODULE Spec2Model ----
(***************************************************************************)
(* Carbon analytics engine (src/carbon_analytics.py) over the emission     *)
(* store created by src/carbon_database_setup.py.                          *)
(*                                                                         *)
(* A table is a bag of rows: a row is in it as many times as it was        *)
(* inserted.  The AUTOINCREMENT key of a row is selected by no query of    *)
(* the engine and is left out.  Dates are ordinal days of one non-leap    *)
(* year (2025), which order as their ISO strings do.  Quantities           *)
(* are integers (kg CO2, kWh); a mean is kept as the pair (sum, count), so *)
(* that comparisons of means are exact and the mean of no rows (NaN) is    *)
(* the pair with count 0.                                                  *)
(***************************************************************************)
EXTENDS Integers, Sequences, FiniteSets, Bags

VARIABLES home_energy, transportation, daily_activities, today, call, locals, result,
          conn

vars ==
  <<home_energy, transportation, daily_activities, today, call, locals, result, conn>>

(* ---- bound of the model: rows in the store ---- *)
MaxRows == 3

(* ---- input domains ---- *)
Users == {1, 2}
\* Feb 28, Mar 1, Mar 2
Dates == {59, 60, 61}
Clock == {60}
ElecVals == {25, 35}
GasVals == {20}
WaterVals == {200}
HeatVals == {15}
HomeCarbonVals == {0, 10}
TransportCarbonVals == {2, 3}
\* Electricity, Natural Gas, Waste Recycling
Categories == {1, 2, 11}
QuantityVals == {10}
ActivityCarbonVals == {-1, 2, 5}
DaysVals == {0, 1, 2}
PeriodVals == {0, 1, 2, 3}
TopNVals == {0, 1, 2, 5}

HomeRows ==
  [user_id : Users, consumption_date : Dates, electricity_usage : ElecVals,
   gas_usage : GasVals, water_usage : WaterVals, heating_usage : HeatVals,
   carbon_emissions : HomeCarbonVals]

TransportRows ==
  [user_id : Users, activity_date : Dates, carbon_emissions : TransportCarbonVals]

ActivityRows ==
  [user_id : Users, category_id : Categories, quantity : QuantityVals,
   carbon_emissions : ActivityCarbonVals]

(* ---- helpers ---- *)
\* the sum of f over the subset S of its domain
RECURSIVE SumOver(_, _)
SumOver(f, S) ==
  IF S = {} THEN 0
  ELSE LET x == CHOOSE y \in S : TRUE
       IN f[x] + SumOver(f, S \ {x})

SumFn(f) == SumOver(f, DOMAIN f)

\* number of rows of a table
TableSize(t) == BagCardinality(t)

RECURSIVE SortAsc(_)
SortAsc(S) ==
  IF S = {} THEN <<>>
  ELSE LET m == CHOOSE x \in S : \A y \in S : x <= y
       IN <<m>> \o SortAsc(S \ {m})

(* ---- the store ---- *)
Idle == [op |-> "none", user_id |-> 0, arg |-> 0]

\* the local variables of the last call; df is a local of every operation
NoLocals == [df |-> <<>>]

Init ==
  /\ home_energy = EmptyBag
  /\ transportation = EmptyBag
  /\ daily_activities = EmptyBag
  /\ today \in Clock
  /\ call = Idle
  /\ locals = NoLocals
  /\ result = <<>>
  /\ conn = "none"

StoreSize ==
  TableSize(home_energy) + TableSize(transportation) + TableSize(daily_activities)

\* The engine is single-threaded and synchronous: an operation runs from its
\* call to its return in one step, and the store is written between
\* operations.  call, locals and result describe the operation that has just
\* returned, until the caller has taken the result.  conn is the handle that
\* operation got from sqlite3.connect: "closed" after conn.close(), "open"
\* as long as close() was not called, "none" between operations.
ReturnToCaller ==
  /\ call # Idle
  /\ call' = Idle
  /\ locals' = NoLocals
  /\ result' = <<>>
  /\ conn' = "none"
  /\ UNCHANGED <<home_energy, transportation, daily_activities, today>>

\* Ingestion (INSERT INTO home_energy).
InsertHomeEnergy ==
  /\ call = Idle
  /\ StoreSize < MaxRows
  /\ \E r \in HomeRows : home_energy' = home_energy (+) SetToBag({r})
  /\ UNCHANGED <<transportation, daily_activities, today, call, locals, result, conn>>

InsertTransportation ==
  /\ call = Idle
  /\ StoreSize < MaxRows
  /\ \E r \in TransportRows : transportation' = transportation (+) SetToBag({r})
  /\ UNCHANGED <<home_energy, daily_activities, today, call, locals, result, conn>>

InsertDailyActivity ==
  /\ call = Idle
  /\ StoreSize < MaxRows
  /\ \E r \in ActivityRows : daily_activities' = daily_activities (+) SetToBag({r})
  /\ UNCHANGED <<home_energy, transportation, today, call, locals, result, conn>>

(* ---- get_user_carbon_timeline ---- *)
\* date('now', '-{days} days')
WindowStart(days) == today - days

TimelineMatch(r, user_id, days) ==
  /\ r.user_id = user_id
  /\ r.consumption_date >= WindowStart(days)

\* a SUM that takes each distinct row once
DailyCarbon_Distinct(user_id, days, d) ==
  SumFn([r \in {x \in BagToSet(home_energy) :
                   TimelineMatch(x, user_id, days) /\ x.consumption_date = d}
          |-> r.carbon_emissions])

\* SUM(carbon_emissions) of one GROUP BY consumption_date group
DailyCarbon(user_id, days, d) ==
  SumFn([r \in {x \in BagToSet(home_energy) :
                   TimelineMatch(x, user_id, days) /\ x.consumption_date = d}
          |-> CopiesIn(r, home_energy) * r.carbon_emissions])

TimelineQuery(user_id, days) ==
  LET ds == {r.consumption_date :
               r \in {x \in BagToSet(home_energy) : TimelineMatch(x, user_id, days)}}
      s == SortAsc(ds)
  IN [i \in 1..Len(s) |->
        [consumption_date |-> s[i], daily_carbon |-> DailyCarbon(user_id, days, s[i])]]

\* a timeline that deletes the rows of the table it has read
GetUserCarbonTimeline_Consuming ==
  \E u \in Users, days \in DaysVals :
    /\ call = Idle
    /\ call' = [op |-> "timeline", user_id |-> u, arg |-> days]
    /\ locals' = [df |-> TimelineQuery(u, days)]
    /\ result' = TimelineQuery(u, days)
    /\ conn' = "closed"
    /\ home_energy' = EmptyBag
    /\ UNCHANGED <<transportation, daily_activities, today>>

GetUserCarbonTimeline ==
  \E u \in Users, days \in DaysVals :
    /\ call = Idle
    /\ call' = [op |-> "timeline", user_id |-> u, arg |-> days]
    /\ locals' = [df |-> TimelineQuery(u, days)]
    /\ result' = TimelineQuery(u, days)
    /\ conn' = "closed"
    /\ UNCHANGED <<home_energy, transportation, daily_activities, today>>

SpecTimeline ==
  Init /\ [][InsertHomeEnergy \/ GetUserCarbonTimeline \/ ReturnToCaller]_vars

\* C1: the timeline holds one (date, daily total) pair per distinct date on
\* which the user has a selected home_energy row, in strictly ascending date
\* order, and the daily totals add up to the emissions of the selected rows,
\* each row counted as often as it is stored.
C1_TimelineConservesEmissions ==
  call.op = "timeline" =>
    LET sel == {r \in HomeRows : /\ CopiesIn(r, home_energy) > 0
                                 /\ r.user_id = call.user_id
                                 /\ r.consumption_date >= today - call.arg}
    IN /\ \A i, j \in 1..Len(result) :
            i < j => result[i].consumption_date < result[j].consumption_date
       /\ {result[i].consumption_date : i \in 1..Len(result)}
            = {r.consumption_date : r \in sel}
       /\ SumFn([i \in 1..Len(result) |-> result[i].daily_carbon])
            = SumFn([r \in sel |-> CopiesIn(r, home_energy) * r.carbon_emissions])

\* two selected dates, one of them with two rows of 10 kg
C1_Witness ==
  /\ call.op = "timeline"
  /\ Len(result) = 2
  /\ \E i \in 1..Len(result) :
        /\ result[i].daily_carbon = 20
        /\ \E r \in HomeRows :
             /\ r.consumption_date = result[i].consumption_date
             /\ r.user_id = call.user_id
             /\ CopiesIn(r, home_energy) = 2

(* ---- analyze_carbon_patterns ---- *)
\* a nullable SQL value: <<>> is NULL, <<v>> is the value v
Null == <<>>

Coalesce(x, dflt) == IF x = Null THEN dflt ELSE x[1]

\* a join on the date alone
TransportEmissions_AnyUser(user_id, d) ==
  LET grp == {x \in BagToSet(transportation) : x.activity_date = d}
  IN IF grp = {} THEN Null
     ELSE <<SumFn([x \in grp |-> CopiesIn(x, transportation) * x.carbon_emissions])>>

\* the subquery t: SUM(carbon_emissions) of the (activity_date, user_id)
\* group; the LEFT JOIN gives NULL where the group has no row
TransportEmissions(user_id, d) ==
  LET grp == {x \in BagToSet(transportation) : /\ x.activity_date = d
                                                /\ x.user_id = user_id}
  IN IF grp = {} THEN Null
     ELSE <<SumFn([x \in grp |-> CopiesIn(x, transportation) * x.carbon_emissions])>>

\* pd.to_datetime(...).dt.month, .dt.dayofweek, .dt.isocalendar().week for
\* an ordinal day of 2025 (Jan 1 2025 is a Wednesday, in ISO week 1)
MonthEnds == <<31, 59, 90, 120, 151, 181, 212, 243, 273, 304, 334, 365>>

MonthOf(d) == CHOOSE m \in 1..12 : d <= MonthEnds[m] /\ (m = 1 \/ d > MonthEnds[m - 1])

DayOfWeek(d) == (d + 1) % 7

WeekOfYear(d) == ((d + 1) \div 7) + 1

\* one output row of the join, with the derived columns
PatternRow(h) ==
  LET te == Coalesce(TransportEmissions(h.user_id, h.consumption_date), 0)
  IN [consumption_date |-> h.consumption_date,
      electricity_usage |-> h.electricity_usage,
      gas_usage |-> h.gas_usage,
      water_usage |-> h.water_usage,
      heating_usage |-> h.heating_usage,
      home_emissions |-> h.carbon_emissions,
      transport_emissions |-> te,
      total_emissions |-> h.carbon_emissions + te,
      day_of_week |-> DayOfWeek(h.consumption_date),
      month |-> MonthOf(h.consumption_date),
      week_of_year |-> WeekOfYear(h.consumption_date)]

\* ORDER BY consumption_date: every arrangement of the rows of B (row ->
\* count) by ascending date; SQL leaves the order of rows of one date open
RECURSIVE OrderByDate(_)
OrderByDate(B) ==
  LET live == {r \in DOMAIN B : B[r] > 0}
  IN IF live = {} THEN {<<>>}
     ELSE LET firsts == {r \in live :
                           \A q \in live : r.consumption_date <= q.consumption_date}
          IN UNION {{<<r>> \o s : s \in OrderByDate([B EXCEPT ![r] = @ - 1])} :
                      r \in firsts}

\* an inner join: only the home rows of a day with transport
HomeOf_InnerJoin(user_id) ==
  [r \in {x \in BagToSet(home_energy) : x.user_id = user_id} |->
     IF TransportEmissions(user_id, r.consumption_date) = Null THEN 0
     ELSE CopiesIn(r, home_energy)]

\* WHERE h.user_id = ?
HomeOf(user_id) ==
  [r \in {x \in BagToSet(home_energy) : x.user_id = user_id} |->
     CopiesIn(r, home_energy)]

PatternsQuery(user_id) ==
  {[i \in 1..Len(s) |-> PatternRow(s[i])] : s \in OrderByDate(HomeOf(user_id))}

AnalyzeCarbonPatterns ==
  /\ call = Idle
  /\ \E u \in Users :
       \E df \in PatternsQuery(u) :
         /\ call' = [op |-> "patterns", user_id |-> u, arg |-> 0]
         /\ locals' = [df |-> df]
         /\ result' = df
         /\ conn' = "closed"
         /\ UNCHANGED <<home_energy, transportation, daily_activities, today>>

SpecPatterns ==
  Init /\ [][InsertHomeEnergy \/ InsertTransportation \/ AnalyzeCarbonPatterns
               \/ ReturnToCaller]_vars

\* C2: every row of the pattern output carries as transport_emissions the sum
\* of the emissions of all transportation rows of the queried user on the
\* row's date (0 when there is none), and total_emissions is home_emissions
\* plus transport_emissions.
C2_TransportSummedPerDay ==
  call.op = "patterns" =>
    \A i \in 1..Len(result) :
      LET trips == {t \in TransportRows : /\ t.user_id = call.user_id
                                         /\ t.activity_date = result[i].consumption_date}
          sum == SumFn([t \in trips |-> CopiesIn(t, transportation) * t.carbon_emissions])
      IN /\ result[i].transport_emissions = sum
         /\ result[i].total_emissions = result[i].home_emissions + sum

\* a day with a 10 kg home row and two trips, of 2 kg and of 3 kg
C2_Witness ==
  /\ call.op = "patterns"
  /\ \E i \in 1..Len(result) :
       /\ result[i].home_emissions = 10
       /\ result[i].total_emissions = 15
       /\ \E t1, t2 \in TransportRows :
            /\ t1 # t2
            /\ CopiesIn(t1, transportation) = 1 /\ CopiesIn(t2, transportation) = 1
            /\ t1.user_id = call.user_id /\ t2.user_id = call.user_id
            /\ t1.activity_date = result[i].consumption_date
            /\ t2.activity_date = result[i].consumption_date

\* C3: the pattern output holds exactly one record per home_energy row of the
\* queried user, by ascending date; a date with transportation rows only does
\* not appear, and a user without home_energy rows gets the empty output.
C3_AnchoredOnHomeEnergy ==
  call.op = "patterns" =>
    LET HomeRowOf(p) ==
          [user_id |-> call.user_id, consumption_date |-> p.consumption_date,
           electricity_usage |-> p.electricity_usage, gas_usage |-> p.gas_usage,
           water_usage |-> p.water_usage, heating_usage |-> p.heating_usage,
           carbon_emissions |-> p.home_emissions]
    IN
    /\ \A h \in HomeRows :
         Cardinality({i \in 1..Len(result) : HomeRowOf(result[i]) = h})
           = IF h.user_id = call.user_id THEN CopiesIn(h, home_energy) ELSE 0
    /\ \A i, j \in 1..Len(result) :
         i < j => result[i].consumption_date <= result[j].consumption_date
    /\ \A i \in 1..Len(result) :
         \E h \in HomeRows : /\ CopiesIn(h, home_energy) > 0
                             /\ h.user_id = call.user_id
                             /\ h.consumption_date = result[i].consumption_date
    /\ (\A h \in HomeRows : h.user_id = call.user_id => CopiesIn(h, home_energy) = 0)
         => result = <<>>

\* two home_energy days, and a trip of the user on a third day
C3_Witness ==
  /\ call.op = "patterns"
  /\ Len(result) = 2
  /\ result[1].consumption_date < result[2].consumption_date
  /\ \E t \in TransportRows :
       /\ CopiesIn(t, transportation) > 0
       /\ t.user_id = call.user_id
       /\ \A i \in 1..Len(result) : result[i].consumption_date # t.activity_date

(* ---- get_eco_heavy_activities ---- *)
\* activity_categories, as carbon_database_setup fills it: category_id -> name
CategoryName ==
  [c \in 1..12 |->
     <<"Electricity", "Natural Gas", "Water Usage", "Car Petrol", "Car Diesel",
       "Public Transport", "Flight Domestic", "Flight International",
       "Food Meat", "Food Vegetables", "Waste Recycling", "Waste Landfill">>[c]]

\* daily_activities da JOIN activity_categories ac ... WHERE da.user_id = ?,
\* the rows of one GROUP BY ac.category_name group
ActivityGroup(user_id, name) ==
  {x \in BagToSet(daily_activities) :
                        /\ x.user_id = user_id
                        /\ x.category_id \in DOMAIN CategoryName
                        /\ CategoryName[x.category_id] = name}

\* AVG is kept as sum over count
CategorySummary(user_id, name) ==
  LET grp == ActivityGroup(user_id, name)
      n == SumFn([x \in grp |-> CopiesIn(x, daily_activities)])
      total == SumFn([x \in grp |-> CopiesIn(x, daily_activities) * x.carbon_emissions])
  IN [category_name |-> name,
      avg_quantity |-> [sum |-> SumFn([x \in grp |-> CopiesIn(x, daily_activities) * x.quantity]),
                        count |-> n],
      avg_carbon |-> [sum |-> total, count |-> n],
      total_carbon |-> total,
      frequency |-> n]

\* ORDER BY total_carbon DESC: every arrangement of the set S of summaries by
\* descending total; the order of equal totals is open
RECURSIVE OrderByTotalDesc(_)
OrderByTotalDesc(S) ==
  IF S = {} THEN {<<>>}
  ELSE LET firsts == {r \in S : \A q \in S : r.total_carbon >= q.total_carbon}
       IN UNION {{<<r>> \o s : s \in OrderByTotalDesc(S \ {r})} : r \in firsts}

\* ORDER BY total_carbon ASC
RECURSIVE OrderByTotalAsc(_)
OrderByTotalAsc(S) ==
  IF S = {} THEN {<<>>}
  ELSE LET firsts == {r \in S : \A q \in S : r.total_carbon <= q.total_carbon}
       IN UNION {{<<r>> \o s : s \in OrderByTotalAsc(S \ {r})} : r \in firsts}

\* LIMIT ? (top_n >= 0)
Limit(s, top_n) == SubSeq(s, 1, IF top_n < Len(s) THEN top_n ELSE Len(s))

\* the ranking in ascending order
EcoHeavyQuery_Ascending(user_id, top_n) ==
  LET names == {CategoryName[c] : c \in DOMAIN CategoryName}
      groups == {n \in names : ActivityGroup(user_id, n) # {}}
  IN {Limit(s, top_n) :
        s \in OrderByTotalAsc({CategorySummary(user_id, n) : n \in groups})}

EcoHeavyQuery(user_id, top_n) ==
  LET names == {CategoryName[c] : c \in DOMAIN CategoryName}
      groups == {n \in names : ActivityGroup(user_id, n) # {}}
  IN {Limit(s, top_n) :
        s \in OrderByTotalDesc({CategorySummary(user_id, n) : n \in groups})}

GetEcoHeavyActivities ==
  /\ call = Idle
  /\ \E u \in Users, top_n \in TopNVals :
       \E df \in EcoHeavyQuery(u, top_n) :
         /\ call' = [op |-> "eco_heavy", user_id |-> u, arg |-> top_n]
         /\ locals' = [df |-> df]
         /\ result' = df
         /\ conn' = "closed"
         /\ UNCHANGED <<home_energy, transportation, daily_activities, today>>

SpecRanker ==
  Init /\ [][InsertDailyActivity \/ GetEcoHeavyActivities \/ ReturnToCaller]_vars

\* C4: the ranking holds min(N, number of the user's categories) summaries of
\* distinct categories, by descending total emission; no category left out
\* has a larger total than one that is in; and total, count and averages of
\* a summary are those of the user's rows of that category.
C4_TopNByTotalEmission ==
  call.op = "eco_heavy" =>
    LET rowsOf(name) == {x \in ActivityRows : /\ x.user_id = call.user_id
                                              /\ CategoryName[x.category_id] = name}
        totalOf(name) ==
          SumFn([x \in rowsOf(name) |-> CopiesIn(x, daily_activities) * x.carbon_emissions])
        countOf(name) == SumFn([x \in rowsOf(name) |-> CopiesIn(x, daily_activities)])
        present == {n \in {CategoryName[c] : c \in 1..12} : countOf(n) > 0}
        shown == {result[i].category_name : i \in 1..Len(result)}
    IN /\ Len(result) <= call.arg
       /\ Len(result) = IF call.arg < Cardinality(present) THEN call.arg
                        ELSE Cardinality(present)
       /\ Cardinality(shown) = Len(result)
       /\ shown \subseteq present
       /\ \A i, j \in 1..Len(result) :
            i < j => result[i].total_carbon >= result[j].total_carbon
       /\ \A n \in present \ shown :
            \A i \in 1..Len(result) : totalOf(n) <= result[i].total_carbon
       /\ \A i \in 1..Len(result) :
            LET n == result[i].category_name
            IN /\ result[i].total_carbon = totalOf(n)
               /\ result[i].frequency = countOf(n)
               /\ result[i].avg_carbon = [sum |-> totalOf(n), count |-> countOf(n)]
               /\ result[i].avg_quantity =
                    [sum |-> SumFn([x \in rowsOf(n) |-> CopiesIn(x, daily_activities) * x.quantity]),
                     count |-> countOf(n)]

\* three categories with totals -1, 5 and 2, top 2: the 5 then the 2
C4_Witness ==
  /\ call.op = "eco_heavy"
  /\ call.arg = 2
  /\ Len(result) = 2
  /\ result[1].total_carbon = 5
  /\ result[2].total_carbon = 2
  /\ \E x \in ActivityRows :
       /\ CopiesIn(x, daily_activities) > 0
       /\ x.user_id = call.user_id
       /\ x.carbon_emissions = -1
       /\ \A i \in 1..Len(result) : result[i].category_name # CategoryName[x.category_id]

(* ---- calculate_carbon_trends ---- *)
\* A float64 is NaN, an infinity, or the exact fraction num / den (den > 0).
NaN == [kind |-> "nan"]

PosInf == [kind |-> "inf"]

NegInf == [kind |-> "-inf"]

Num(n, d) == [kind |-> "num", num |-> n, den |-> d]

\* Series.mean(): NaN for no rows
Mean(xs) ==
  IF Len(xs) = 0 THEN NaN
  ELSE Num(SumFn([i \in 1..Len(xs) |-> xs[i]]), Len(xs))

\* a - b on the means
FSub(a, b) ==
  IF a.kind = "num" /\ b.kind = "num"
  THEN Num(a.num * b.den - b.num * a.den, a.den * b.den)
  ELSE NaN

\* a / b of numpy floats: x / 0 is +-inf, 0 / 0 is NaN, with a warning only
FDiv(a, b) ==
  IF a.kind # "num" \/ b.kind # "num" THEN NaN
  ELSE IF b.num = 0
       THEN IF a.num > 0 THEN PosInf ELSE IF a.num < 0 THEN NegInf ELSE NaN
       ELSE IF b.num > 0 THEN Num(a.num * b.den, a.den * b.num)
            ELSE Num(-(a.num * b.den), -(a.den * b.num))

\* a * 100
FTimes100(a) == IF a.kind = "num" THEN Num(a.num * 100, a.den) ELSE a

\* a > 0 (False for NaN)
FPositive(a) == a.kind = "inf" \/ (a.kind = "num" /\ a.num > 0)

\* the integer nearest to n / d (d > 0), a half going to the even one
RoundHalfEven(n, d) ==
  LET q == (2 * n + d) \div (2 * d)
  IN IF (2 * n + d) % (2 * d) = 0 /\ q % 2 = 1 THEN q - 1 ELSE q

\* round(a, 2): the value in hundredths; NaN and the infinities stay
Round2(a) ==
  IF a.kind = "num" THEN [kind |-> "num", hundredths |-> RoundHalfEven(a.num * 100, a.den)]
  ELSE a

\* WHERE h.user_id = ? AND h.consumption_date >= date('now', '-{period_days * 2} days')
TrendHomeOf(user_id, period_days) ==
  [r \in {x \in BagToSet(home_energy) :
             /\ x.user_id = user_id
             /\ x.consumption_date >= today - period_days * 2}
     |-> CopiesIn(r, home_energy)]

TrendRow(h) ==
  [consumption_date |-> h.consumption_date,
   total_daily_carbon |->
     h.carbon_emissions
       + Coalesce(TransportEmissions(h.user_id, h.consumption_date), 0)]

TrendsQuery(user_id, period_days) ==
  {[i \in 1..Len(s) |-> TrendRow(s[i])] :
     s \in OrderByDate(TrendHomeOf(user_id, period_days))}

\* a check that also turns away exactly period_days rows
InsufficientData_OrEqual(df, period_days) == Len(df) <= period_days

\* if len(df) < period_days: return None
InsufficientData(df, period_days) == Len(df) < period_days

None == [outcome |-> "insufficient_data"]

\* a label that calls no change an increase
TrendLabel_NotNegative(change_percent) ==
  IF FPositive(change_percent) \/ (change_percent.kind = "num" /\ change_percent.num = 0)
  THEN "increasing" ELSE "decreasing"

\* 'increasing' if change_percent > 0 else 'decreasing'
TrendLabel(change_percent) ==
  IF FPositive(change_percent) THEN "increasing" ELSE "decreasing"

\* ((recent_period - previous_period) / previous_period) * 100
ChangePercent(recent_period, previous_period) ==
  FTimes100(FDiv(FSub(recent_period, previous_period), previous_period))

\* a split whose midpoint is rounded up
TrendLocals_MidpointUp(df, period_days) ==
  IF InsufficientData(df, period_days) THEN [df |-> df]
  ELSE LET midpoint == (Len(df) + 1) \div 2
           totals == [i \in 1..Len(df) |-> df[i].total_daily_carbon]
           recent_period == Mean(SubSeq(totals, midpoint + 1, Len(df)))
           previous_period == Mean(SubSeq(totals, 1, midpoint))
       IN [df |-> df,
           midpoint |-> midpoint,
           recent_period |-> recent_period,
           previous_period |-> previous_period,
           change_percent |-> ChangePercent(recent_period, previous_period)]

\* the locals at the return of the function, for the fetched frame df
TrendLocals(df, period_days) ==
  IF InsufficientData(df, period_days) THEN [df |-> df]
  ELSE LET midpoint == Len(df) \div 2
           totals == [i \in 1..Len(df) |-> df[i].total_daily_carbon]
           recent_period == Mean(SubSeq(totals, midpoint + 1, Len(df)))
           previous_period == Mean(SubSeq(totals, 1, midpoint))
       IN [df |-> df,
           midpoint |-> midpoint,
           recent_period |-> recent_period,
           previous_period |-> previous_period,
           change_percent |-> ChangePercent(recent_period, previous_period)]

TrendResult(df, period_days) ==
  IF InsufficientData(df, period_days) THEN None
  ELSE LET l == TrendLocals(df, period_days)
       IN [outcome |-> "trend",
           recent_avg |-> Round2(l.recent_period),
           previous_avg |-> Round2(l.previous_period),
           change_percent |-> Round2(l.change_percent),
           trend |-> TrendLabel(l.change_percent)]

CalculateCarbonTrends ==
  /\ call = Idle
  /\ \E u \in Users, period_days \in PeriodVals :
       \E df \in TrendsQuery(u, period_days) :
         /\ call' = [op |-> "trends", user_id |-> u, arg |-> period_days]
         /\ locals' = TrendLocals(df, period_days)
         /\ result' = TrendResult(df, period_days)
         /\ conn' = "closed"
         /\ UNCHANGED <<home_energy, transportation, daily_activities, today>>

SpecTrends ==
  Init /\ [][InsertHomeEnergy \/ InsertTransportation \/ CalculateCarbonTrends
               \/ ReturnToCaller]_vars

\* C5: calculate_carbon_trends returns the insufficient-data outcome exactly
\* when fewer than period_days rows of the user lie in the 2 x period_days
\* window, and a trend record otherwise.
C5_InsufficientDataBelowPeriod ==
  call.op = "trends" =>
    LET fetched == {h \in HomeRows : /\ h.user_id = call.user_id
                                     /\ h.consumption_date >= today - 2 * call.arg}
        n == SumFn([h \in fetched |-> CopiesIn(h, home_energy)])
    IN /\ result.outcome \in {"insufficient_data", "trend"}
       /\ result.outcome = "insufficient_data" <=> n < call.arg

\* period 3 with two rows in the window
C5_Witness ==
  /\ call.op = "trends"
  /\ call.arg = 3
  /\ Len(locals.df) = 2
  /\ result = None

\* C6: with enough rows and a previous half whose mean is exactly zero,
\* calculate_carbon_trends gives an outcome of its own, not a trend record
\* with a change_percent and a label.
C6_UndefinedTrendOutcome ==
  (/\ call.op = "trends"
   /\ Len(locals.df) >= call.arg
   /\ Len(locals.df) \div 2 > 0
   /\ SumFn([i \in 1..(Len(locals.df) \div 2) |-> locals.df[i].total_daily_carbon]) = 0)
    => /\ result.outcome # "trend"
       /\ result.outcome # "insufficient_data"

\* C7: a trend record made from a previous mean other than zero has
\* change_percent = (recent mean - previous mean) / previous mean x 100
\* (returned rounded to the nearest hundredth) and the label 'increasing'
\* exactly when that change is above 0, 'decreasing' otherwise.
C7_ChangePercentAndLabel ==
  LET df == locals.df
      m == Len(df) \div 2
      ps == SumFn([i \in 1..m |-> df[i].total_daily_carbon])
      rs == SumFn([i \in (m + 1)..Len(df) |-> df[i].total_daily_carbon])
      \* change = cn / cd, with recent mean rs / (Len(df) - m), previous ps / m
      cn == (rs * m - ps * (Len(df) - m)) * 100
      cd == ps * (Len(df) - m)
      Abs(x) == IF x < 0 THEN -x ELSE x
  IN (call.op = "trends" /\ result.outcome = "trend" /\ m > 0 /\ ps # 0) =>
       /\ locals.change_percent.kind = "num"
       /\ locals.change_percent.num * cd = cn * locals.change_percent.den
       /\ result.change_percent.kind = "num"
       /\ 2 * Abs(100 * cn - result.change_percent.hundredths * cd) <= Abs(cd)
       /\ result.trend \in {"increasing", "decreasing"}
       /\ result.trend = "increasing" <=> cn * cd > 0
       /\ cn = 0 => result.trend = "decreasing"

\* previous mean 10, recent mean 12: +20.00, increasing
C7_Witness ==
  /\ call.op = "trends"
  /\ result.outcome = "trend"
  /\ result.previous_avg = [kind |-> "num", hundredths |-> 1000]
  /\ result.recent_avg = [kind |-> "num", hundredths |-> 1200]
  /\ result.change_percent = [kind |-> "num", hundredths |-> 2000]
  /\ result.trend = "increasing"

(* ---- generate_optimization_suggestions ---- *)
ElectricityThreshold == 30

TransportThreshold == 2

PeakMonthCount == 3

DefaultTopN == 5

\* avg > threshold for a mean avg (False for NaN, the mean of no rows)
Above(avg, threshold) == avg.kind = "num" /\ avg.num > threshold * avg.den

\* if avg_electricity >= 30
HighElectricity_OrEqual(avg_electricity) ==
  /\ avg_electricity.kind = "num"
  /\ avg_electricity.num >= ElectricityThreshold * avg_electricity.den

\* if avg_electricity > 30
HighElectricity(avg_electricity) == Above(avg_electricity, ElectricityThreshold)

\* if avg_transport > 2
HighTransport(avg_transport) == Above(avg_transport, TransportThreshold)

Column(df, c) == [i \in 1..Len(df) |-> df[i][c]]

\* patterns_df.groupby('month')['total_emissions'].mean(): month -> mean
MonthlyAvg(patterns_df) ==
  [m \in {patterns_df[i].month : i \in 1..Len(patterns_df)} |->
     LET idx == {i \in 1..Len(patterns_df) : patterns_df[i].month = m}
     IN Num(SumFn([i \in idx |-> patterns_df[i].total_emissions]), Cardinality(idx))]

\* nlargest(n).index.tolist(): the n largest means, descending; of equal
\* means the one first in the month-sorted index comes first (keep='first')
RECURSIVE NLargest(_, _, _)
NLargest(monthly_avg, months, n) ==
  IF n = 0 \/ months = {} THEN <<>>
  ELSE LET Less(a, b) == a.num * b.den < b.num * a.den
           top == CHOOSE m \in months :
                    \A q \in months :
                      /\ ~Less(monthly_avg[m], monthly_avg[q])
                      /\ (~Less(monthly_avg[q], monthly_avg[m]) => m <= q)
       IN <<top>> \o NLargest(monthly_avg, months \ {top}, n - 1)

\* every month of the data, none cut off
PeakMonths_AllMonths(patterns_df) ==
  LET monthly_avg == MonthlyAvg(patterns_df)
  IN NLargest(monthly_avg, DOMAIN monthly_avg, Cardinality(DOMAIN monthly_avg))

PeakMonths(patterns_df) ==
  LET monthly_avg == MonthlyAvg(patterns_df)
  IN NLargest(monthly_avg, DOMAIN monthly_avg, PeakMonthCount)

ElectricitySuggestion(patterns_df) ==
  LET avg_electricity == Mean(Column(patterns_df, "electricity_usage"))
  IN IF HighElectricity(avg_electricity)
     THEN <<[category |-> "Electricity",
             current_avg |-> Round2(avg_electricity),
             suggestion |-> "Consider switching to LED bulbs and unplugging devices when not in use",
             potential_reduction |-> "15-20%"]>>
     ELSE <<>>

TransportSuggestion(patterns_df) ==
  LET avg_transport == Mean(Column(patterns_df, "transport_emissions"))
  IN IF HighTransport(avg_transport)
     THEN <<[category |-> "Transportation",
             current_avg |-> Round2(avg_transport),
             suggestion |-> "Try using public transport or cycling for short trips",
             potential_reduction |-> "30-40%"]>>
     ELSE <<>>

\* a seasonal suggestion only for a user with data
SeasonalSuggestion_OnlyWithData(patterns_df) ==
  IF patterns_df = <<>> THEN <<>>
  ELSE <<[category |-> "Seasonal Optimization",
          peak_months |-> PeakMonths(patterns_df),
          suggestion |-> "Focus on energy efficiency during high-consumption months",
          potential_reduction |-> "10-15%"]>>

SeasonalSuggestion(patterns_df) ==
  <<[category |-> "Seasonal Optimization",
     peak_months |-> PeakMonths(patterns_df),
     suggestion |-> "Focus on energy efficiency during high-consumption months",
     potential_reduction |-> "10-15%"]>>

\* What the call gives for patterns_df.  For an empty frame every column has
\* dtype object: the two means are NaN, and the grouped mean keeps dtype
\* object or not with the pandas at hand, so that nlargest either raises
\* TypeError or gives no month.
SuggestionOutcomes(patterns_df) ==
  LET returned == [outcome |-> "returned",
                   suggestions |-> ElectricitySuggestion(patterns_df)
                                     \o TransportSuggestion(patterns_df)
                                     \o SeasonalSuggestion(patterns_df)]
  IN IF patterns_df = <<>>
     THEN {returned, [outcome |-> "raised", error |-> "TypeError"]}
     ELSE {returned}

GenerateOptimizationSuggestions ==
  /\ call = Idle
  /\ \E u \in Users :
       \E patterns_df \in PatternsQuery(u), eco_heavy_df \in EcoHeavyQuery(u, DefaultTopN) :
         \E res \in SuggestionOutcomes(patterns_df) :
           /\ call' = [op |-> "suggestions", user_id |-> u, arg |-> 0]
           /\ locals' = [patterns_df |-> patterns_df, eco_heavy_df |-> eco_heavy_df]
           /\ result' = res
           /\ conn' = "closed"
           /\ UNCHANGED <<home_energy, transportation, daily_activities, today>>

SpecSuggestions ==
  Init /\ [][InsertHomeEnergy \/ InsertTransportation
               \/ GenerateOptimizationSuggestions \/ ReturnToCaller]_vars

\* The query of an operation fails: sqlite3.connect has handed out the
\* handle, pd.read_sql_query raises (the database is locked by a writer, a
\* table is missing, the file cannot be read), and the exception leaves the
\* function from the read_sql_query line.  No try/finally and no with-block
\* surrounds that line, so the conn.close() that follows it is not reached.
QueryError == [outcome |-> "raised", error |-> "DatabaseError"]

QueryFails(op, user_id, arg) ==
  /\ call = Idle
  /\ call' = [op |-> op, user_id |-> user_id, arg |-> arg]
  /\ locals' = NoLocals
  /\ result' = QueryError
  /\ conn' = "open"
  /\ UNCHANGED <<home_energy, transportation, daily_activities, today>>

GetUserCarbonTimelineFails ==
  \E u \in Users, days \in DaysVals : QueryFails("timeline", u, days)

AnalyzeCarbonPatternsFails ==
  \E u \in Users : QueryFails("patterns", u, 0)

GetEcoHeavyActivitiesFails ==
  \E u \in Users, top_n \in TopNVals : QueryFails("eco_heavy", u, top_n)

CalculateCarbonTrendsFails ==
  \E u \in Users, period_days \in PeriodVals : QueryFails("trends", u, period_days)

\* The four operations that open a handle of their own, each with its
\* failing path, over a store of home_energy rows.
SpecHandles ==
  Init /\ [][InsertHomeEnergy
               \/ GetUserCarbonTimeline \/ GetUserCarbonTimelineFails
               \/ AnalyzeCarbonPatterns \/ AnalyzeCarbonPatternsFails
               \/ GetEcoHeavyActivities \/ GetEcoHeavyActivitiesFails
               \/ CalculateCarbonTrends \/ CalculateCarbonTrendsFails
               \/ ReturnToCaller]_vars

\* All five operations over a store of home_energy rows.
SpecAnalytics ==
  Init /\ [][InsertHomeEnergy \/ GetUserCarbonTimeline \/ AnalyzeCarbonPatterns
               \/ GetEcoHeavyActivities \/ CalculateCarbonTrends
               \/ GenerateOptimizationSuggestions \/ ReturnToCaller]_vars

\* Ingestion over four months (Jan 31, Feb 28, Mar 31, Apr 30), the usage
\* columns held fixed: the stores on which more months have data than the
\* seasonal suggestion lists.
MaxSeasonRows == 4

SeasonDates == {31, 59, 90, 120}

SeasonRows ==
  [user_id : Users, consumption_date : SeasonDates, electricity_usage : {25},
   gas_usage : GasVals, water_usage : WaterVals, heating_usage : HeatVals,
   carbon_emissions : HomeCarbonVals]

InsertHomeEnergySeasons ==
  /\ call = Idle
  /\ StoreSize < MaxSeasonRows
  /\ \E r \in SeasonRows : home_energy' = home_energy (+) SetToBag({r})
  /\ UNCHANGED <<transportation, daily_activities, today, call, locals, result, conn>>

SpecSeasons ==
  Init /\ [][InsertHomeEnergySeasons \/ GenerateOptimizationSuggestions
               \/ ReturnToCaller]_vars

Next ==
  \/ InsertHomeEnergy
  \/ InsertTransportation
  \/ InsertDailyActivity
  \/ InsertHomeEnergySeasons
  \/ GetUserCarbonTimeline
  \/ AnalyzeCarbonPatterns
  \/ GetEcoHeavyActivities
  \/ GenerateOptimizationSuggestions
  \/ CalculateCarbonTrends
  \/ GetUserCarbonTimelineFails
  \/ AnalyzeCarbonPatternsFails
  \/ GetEcoHeavyActivitiesFails
  \/ CalculateCarbonTrendsFails
  \/ ReturnToCaller

Spec == Init /\ [][Next]_vars

\* C8: for a user with at least one pattern row, the 'Electricity'
\* suggestion is there exactly when the mean electricity usage of the
\* pattern rows is above 30, and the 'Transportation' suggestion exactly
\* when the mean transport emission per pattern row is above 2.
C8_SuggestionThresholds ==
  LET mine == {h \in HomeRows : h.user_id = call.user_id}
      n == SumFn([h \in mine |-> CopiesIn(h, home_energy)])
      elec == SumFn([h \in mine |-> CopiesIn(h, home_energy) * h.electricity_usage])
      tripsOn(d) == {t \in TransportRows : t.user_id = call.user_id /\ t.activity_date = d}
      transportOn(d) ==
        SumFn([t \in tripsOn(d) |-> CopiesIn(t, transportation) * t.carbon_emissions])
      transport ==
        SumFn([h \in mine |-> CopiesIn(h, home_energy) * transportOn(h.consumption_date)])
  IN (call.op = "suggestions" /\ n > 0) =>
       /\ result.outcome = "returned"
       /\ LET cats == {result.suggestions[i].category : i \in 1..Len(result.suggestions)}
          IN /\ "Electricity" \in cats <=> elec > 30 * n
             /\ "Transportation" \in cats <=> transport > 2 * n

\* mean electricity 35 and mean transport exactly 2: 'Electricity' only
C8_Witness ==
  /\ call.op = "suggestions"
  /\ Len(locals.patterns_df) = 1
  /\ locals.patterns_df[1].electricity_usage = 35
  /\ locals.patterns_df[1].transport_emissions = 2
  /\ Len(result.suggestions) = 2
  /\ result.suggestions[1].category = "Electricity"
  /\ result.suggestions[1].current_avg = [kind |-> "num", hundredths |-> 3500]

\* C9: without pattern rows generate_optimization_suggestions does not
\* fault, and returns the empty list or a single 'insufficient data' marker.
C9_GuardsEmptyPatterns ==
  (call.op = "suggestions" /\ locals.patterns_df = <<>>) =>
    /\ result.outcome = "returned"
    /\ \/ result.suggestions = <<>>
       \/ /\ Len(result.suggestions) = 1
          /\ result.suggestions[1].category = "Insufficient Data"

\* C10: every returned list ends with the one 'Seasonal Optimization'
\* suggestion, after 'Electricity' and 'Transportation' where they are
\* there, in that order: one to three entries, no category twice.
C10_SeasonalAlwaysLast ==
  (call.op = "suggestions" /\ result.outcome = "returned") =>
    LET cats == [i \in 1..Len(result.suggestions) |-> result.suggestions[i].category]
    IN cats \in {<<"Seasonal Optimization">>,
                 <<"Electricity", "Seasonal Optimization">>,
                 <<"Transportation", "Seasonal Optimization">>,
                 <<"Electricity", "Transportation", "Seasonal Optimization">>}

\* all three suggestions
C10_Witness ==
  /\ call.op = "suggestions"
  /\ result.outcome = "returned"
  /\ Len(result.suggestions) = 3
  /\ result.suggestions[3].category = "Seasonal Optimization"
  /\ result.suggestions[3].peak_months # <<>>

\* C11: in no state has one of the four operations that open a handle
\* (timeline, pattern analysis, activity ranking, trend) returned or raised
\* while the handle it opened is still open; the path where the query fails
\* after the handle was opened is included.
C11_HandleReleasedOnEveryExit ==
  call # Idle => conn # "open"

\* Two query results are the same rows, and the same sequence of sort keys:
\* they differ at most in the order of rows whose sort keys are equal.
SameUpToTies(a, b, Key(_)) ==
  /\ Len(a) = Len(b)
  /\ \A i \in 1..Len(a) : Key(a[i]) = Key(b[i])
  /\ \A r \in {a[i] : i \in 1..Len(a)} :
       Cardinality({i \in 1..Len(a) : a[i] = r}) = Cardinality({i \in 1..Len(b) : b[i] = r})

\* The operation of the current call, invoked again in the current state
\* with the same arguments, gives the result the current call gave.
Reinvoked ==
  LET u == call.user_id
      DateOf(r) == r.consumption_date
  IN CASE call.op = "timeline" -> result = TimelineQuery(u, call.arg)
       [] call.op = "patterns" ->
            /\ result \in PatternsQuery(u)
            /\ \A again \in PatternsQuery(u) : SameUpToTies(result, again, DateOf)
       [] call.op = "eco_heavy" ->
            /\ result \in EcoHeavyQuery(u, call.arg)
            /\ \A again \in EcoHeavyQuery(u, call.arg) :
                 /\ Len(again) = Len(result)
                 /\ \A i \in 1..Len(result) :
                      again[i].total_carbon = result[i].total_carbon
       [] call.op = "trends" ->
            /\ locals.df \in TrendsQuery(u, call.arg)
            /\ \A again \in TrendsQuery(u, call.arg) : SameUpToTies(locals.df, again, DateOf)
            /\ result = TrendResult(locals.df, call.arg)
       [] call.op = "suggestions" ->
            /\ locals.patterns_df \in PatternsQuery(u)
            /\ result \in SuggestionOutcomes(locals.patterns_df)
       [] OTHER -> FALSE

C13_ClosedWindow ==
  call.op = "timeline" =>
    LET inWindow == {r \in HomeRows : /\ CopiesIn(r, home_energy) > 0
                                      /\ r.user_id = call.user_id
                                      /\ r.consumption_date >= today - call.arg
                                      /\ r.consumption_date <= today}
    IN /\ \A i \in 1..Len(result) :
            /\ result[i].consumption_date >= today - call.arg
            /\ result[i].consumption_date <= today
       /\ SumFn([i \in 1..Len(result) |-> result[i].daily_carbon])
            = SumFn([r \in inWindow |-> CopiesIn(r, home_energy) * r.carbon_emissions])

\* C14: when a trend record is returned, the n fetched rows are split by
\* position: midpoint is floor(n / 2), the previous mean is taken over rows
\* 1..midpoint and the recent mean over rows midpoint+1..n (so the halves
\* are contiguous, disjoint and cover every row), every previous row is
\* dated no later than every recent row, and for odd n the recent half has
\* exactly one row more.
C14_SplitByPosition ==
  (call.op = "trends" /\ result.outcome = "trend") =>
    LET df == locals.df
        n == Len(df)
        previous == 1..(n \div 2)
        recent == (n \div 2 + 1)..n
        Total(I) == SumFn([i \in I |-> df[i].total_daily_carbon])
        MeanOver(I) == IF I = {} THEN NaN ELSE Num(Total(I), Cardinality(I))
    IN /\ locals.midpoint = n \div 2
       /\ locals.previous_period = MeanOver(previous)
       /\ locals.recent_period = MeanOver(recent)
       /\ previous \cap recent = {}
       /\ previous \cup recent = 1..n
       /\ \A i \in previous, j \in recent :
            df[i].consumption_date <= df[j].consumption_date
       /\ n % 2 = 1 => Cardinality(recent) = Cardinality(previous) + 1

\* three fetched rows, the first two of the same date: the split leaves one
\* row in the previous half and two in the recent half, and separates rows of
\* one calendar day
C14_Witness ==
  /\ call.op = "trends"
  /\ result.outcome = "trend"
  /\ Len(locals.df) = 3
  /\ locals.midpoint = 1
  /\ locals.df[1].consumption_date = locals.df[2].consumption_date
  /\ locals.previous_period = Num(10, 1)
  /\ locals.recent_period.den = 2

\* C16: whenever a trend record is returned, the previous half and the
\* recent half both hold at least one fetched row, so that both means are
\* taken over a non-empty set, for every period length, 0 and 1 included.
C16_BothHalvesNonEmpty ==
  (call.op = "trends" /\ result.outcome = "trend") =>
    /\ locals.midpoint >= 1
    /\ Len(locals.df) - locals.midpoint >= 1
    /\ locals.previous_period # NaN
    /\ locals.recent_period # NaN

\* C15: in a returned suggestion list, the peak_months of the seasonal
\* suggestion are min(3, number of months with data) months of the user's
\* pattern rows, each month at most once, in descending order of the month's
\* mean total_emissions with months of equal mean in ascending month number,
\* and every month with data that is left out comes after all of them in
\* that order.
C15_PeakMonths ==
  (call.op = "suggestions" /\ result.outcome = "returned") =>
    LET df == locals.patterns_df
        peak == result.suggestions[Len(result.suggestions)].peak_months
        months == {df[i].month : i \in 1..Len(df)}
        Rows(m) == {i \in 1..Len(df) : df[i].month = m}
        Total(m) == SumFn([i \in Rows(m) |-> df[i].total_emissions])
        Count(m) == Cardinality(Rows(m))
        \* the mean of month a is above the mean of month b
        Above2(a, b) == Total(a) * Count(b) > Total(b) * Count(a)
        Before(a, b) == Above2(a, b) \/ (~Above2(b, a) /\ a < b)
        listed == {peak[i] : i \in 1..Len(peak)}
    IN /\ Len(peak) = IF Cardinality(months) < 3 THEN Cardinality(months) ELSE 3
       /\ listed \subseteq months
       /\ \A i, j \in 1..Len(peak) : i < j => Before(peak[i], peak[j])
       /\ \A m \in months \ listed : \A i \in 1..Len(peak) : Before(peak[i], m)

\* four months with data, two of them with the same mean: three are listed,
\* and one month of the user's data is left out
C15_Witness ==
  /\ call.op = "suggestions"
  /\ result.outcome = "returned"
  /\ Cardinality({locals.patterns_df[i].month : i \in 1..Len(locals.patterns_df)}) = 4
  /\ result.suggestions[Len(result.suggestions)].peak_months = <<2, 4, 1>>

====
